---- MODULE Spec2Model ----
(***************************************************************************)
(* Model of server.py: the token registry (load_tokens / save_tokens /     *)
(* register_device / force_reload), the broadcast loop of                  *)
(* send_loot_notification and send_fcm_notification_with_retry.            *)
(*                                                                         *)
(* Text is modelled as a sequence of one-character strings, so that        *)
(* json.dump, json.loads, str.strip and str.splitlines are computed on     *)
(* characters and not assumed to be inverse to each other.                 *)
(***************************************************************************)
EXTENDS Integers, Sequences, FiniteSets, TLC

VARIABLES
    registered_tokens,  \* the global set of server.py:75
    fs,                 \* the directory holding TOKEN_FILE, its .bak and .tmp
    last,               \* the last completed request of the sequential server
    accepted,           \* history: tokens the concurrent callers were answered 200 for
    reg,                \* per caller: position and locals inside register_device
    ever,               \* history: every value the in-memory set has had
    bc,                 \* the webhook thread inside send_loot_notification
    rt                  \* one call of send_fcm_notification_with_retry

vars == <<registered_tokens, fs, last, accepted, reg, ever, bc, rt>>

----------------------------------------------------------------------------
(* Bounds of the model *)

\* Concurrent callers of /register.
NumCallers == 2

\* Requests the sequential server handles in one run.
MaxRequests == 2

\* Largest max_retries tried when the retry loop is run on its own.
MaxRetriesBound == 4

----------------------------------------------------------------------------
(* Text *)

Rep(c, n) == [i \in 1..n |-> c]

WS == {" ", "\n"}

RECURSIVE LStrip(_)
LStrip(t) == IF t # <<>> /\ Head(t) \in WS THEN LStrip(Tail(t)) ELSE t

RECURSIVE RStrip(_)
RStrip(t) ==
    IF t # <<>> /\ t[Len(t)] \in WS THEN RStrip(SubSeq(t, 1, Len(t) - 1)) ELSE t

\* str.strip()
Strip(t) == RStrip(LStrip(t))

\* c in t
Contains(t, c) == \E i \in 1..Len(t) : t[i] = c

\* str.splitlines(): no empty last line after a final line break
RECURSIVE SplitLinesFrom(_, _, _)
SplitLinesFrom(t, i, cur) ==
    IF i > Len(t) THEN (IF cur = <<>> THEN <<>> ELSE <<cur>>)
    ELSE IF t[i] = "\n" THEN <<cur>> \o SplitLinesFrom(t, i + 1, <<>>)
    ELSE SplitLinesFrom(t, i + 1, Append(cur, t[i]))

SplitLines(t) == SplitLinesFrom(t, 1, <<>>)

Range(s) == {s[i] : i \in 1..Len(s)}

\* The sequences that list the set S once each: the orders in which
\* iterating a Python set may produce its elements.
Orders(S) ==
    {s \in [1..Cardinality(S) -> S] : \A i, j \in 1..Cardinality(S) : s[i] = s[j] => i = j}

----------------------------------------------------------------------------
(* json.dump(list_of_str, f, indent=2) *)

EscapeChar(c) ==
    IF c = "\"" THEN <<"\\", "\"">>
    ELSE IF c = "\\" THEN <<"\\", "\\">>
    ELSE IF c = "\n" THEN <<"\\", "n">>
    ELSE <<c>>

RECURSIVE EscapeText(_)
EscapeText(t) == IF t = <<>> THEN <<>> ELSE EscapeChar(Head(t)) \o EscapeText(Tail(t))

DumpString(t) == <<"\"">> \o EscapeText(t) \o <<"\"">>

RECURSIVE DumpItems(_)
DumpItems(l) ==
    IF Len(l) = 1 THEN DumpString(l[1])
    ELSE DumpString(Head(l)) \o <<",", "\n", " ", " ">> \o DumpItems(Tail(l))

json_dump(l) ==
    IF l = <<>> THEN <<"[", "]">>
    ELSE <<"[", "\n", " ", " ">> \o DumpItems(l) \o <<"\n", "]">>

----------------------------------------------------------------------------
(* json.loads(text): a parser of JSON over the characters of the model    *)

JNone == [k |-> "none", s |-> <<>>, items |-> <<>>]
JStr(t) == [k |-> "str", s |-> t, items |-> <<>>]
JNum == [k |-> "num", s |-> <<>>, items |-> <<>>]
JObj == [k |-> "obj", s |-> <<>>, items |-> <<>>]
JList(l) == [k |-> "list", s |-> <<>>, items |-> l]

PFail == [ok |-> FALSE, v |-> JNone, i |-> 0]
POk(val, nxt) == [ok |-> TRUE, v |-> val, i |-> nxt]

Digits == {"1"}

RECURSIVE SkipWs(_, _)
SkipWs(t, i) == IF i <= Len(t) /\ t[i] \in WS THEN SkipWs(t, i + 1) ELSE i

\* t[i-1] is the opening quote; control characters may not appear raw
RECURSIVE ParseString(_, _, _)
ParseString(t, i, acc) ==
    IF i > Len(t) THEN PFail
    ELSE IF t[i] = "\"" THEN POk(JStr(acc), i + 1)
    ELSE IF t[i] = "\n" THEN PFail
    ELSE IF t[i] = "\\" THEN
        IF i + 1 > Len(t) THEN PFail
        ELSE IF t[i + 1] \in {"\"", "\\"} THEN ParseString(t, i + 2, Append(acc, t[i + 1]))
        ELSE IF t[i + 1] = "n" THEN ParseString(t, i + 2, Append(acc, "\n"))
        ELSE PFail
    ELSE ParseString(t, i + 1, Append(acc, t[i]))

RECURSIVE ParseNumber(_, _)
ParseNumber(t, i) ==
    IF i <= Len(t) /\ t[i] \in Digits THEN ParseNumber(t, i + 1) ELSE POk(JNum, i)

RECURSIVE ParseValue(_, _)
RECURSIVE ParseArray(_, _, _)
RECURSIVE ParseObject(_, _)

\* the elements of an array from position i, acc the ones parsed so far
ParseArray(t, i, acc) ==
    LET e == ParseValue(t, i)
        j == SkipWs(t, e.i)
    IN  IF ~e.ok \/ j > Len(t) THEN PFail
        ELSE IF t[j] = "]" THEN POk(JList(Append(acc, e.v)), j + 1)
        ELSE IF t[j] = "," THEN ParseArray(t, SkipWs(t, j + 1), Append(acc, e.v))
        ELSE PFail

\* the members of an object from position i, where a key must start
ParseObject(t, i) ==
    IF i > Len(t) \/ t[i] # "\"" THEN PFail
    ELSE LET key == ParseString(t, i + 1, <<>>)
             c == SkipWs(t, key.i)
         IN  IF ~key.ok \/ c > Len(t) \/ t[c] # ":" THEN PFail
             ELSE LET e == ParseValue(t, SkipWs(t, c + 1))
                      j == SkipWs(t, e.i)
                  IN  IF ~e.ok \/ j > Len(t) THEN PFail
                      ELSE IF t[j] = "}" THEN POk(JObj, j + 1)
                      ELSE IF t[j] = "," THEN ParseObject(t, SkipWs(t, j + 1))
                      ELSE PFail

ParseValue(t, i) ==
    IF i > Len(t) THEN PFail
    ELSE IF t[i] = "\"" THEN ParseString(t, i + 1, <<>>)
    ELSE IF t[i] \in Digits THEN ParseNumber(t, i)
    ELSE IF t[i] = "[" THEN
        LET j == SkipWs(t, i + 1)
        IN  IF j <= Len(t) /\ t[j] = "]" THEN POk(JList(<<>>), j + 1)
            ELSE ParseArray(t, j, <<>>)
    ELSE IF t[i] = "{" THEN
        LET j == SkipWs(t, i + 1)
        IN  IF j <= Len(t) /\ t[j] = "}" THEN POk(JObj, j + 1)
            ELSE ParseObject(t, j)
    ELSE PFail

\* json.loads: one value, white space around it, nothing after it;
\* ok = FALSE stands for JSONDecodeError
json_loads(t) ==
    LET r == ParseValue(t, SkipWs(t, 1))
    IN  IF r.ok /\ SkipWs(t, r.i) = Len(t) + 1 THEN r ELSE PFail

----------------------------------------------------------------------------
(* The directory of TOKEN_FILE: names bound to inodes, inodes holding text *)

TOKEN_FILE == "registered_tokens.json"
BAK_FILE == "registered_tokens.json.bak"
TEMP_FILE == "registered_tokens.json.tmp"

Paths == {TOKEN_FILE, BAK_FILE, TEMP_FILE}

\* one inode per name, and one per writer that may hold an unlinked file open
Inodes == 1..(3 + NumCallers)

NoFile == [p \in Paths |-> 0]
NoData == [i \in Inodes |-> <<>>]

\* Path(p).exists()
FsExists(f, p) == f.dir[p] # 0

\* f.read() of an existing file
FsRead(f, p) == f.data[f.dir[p]]

\* inodes that no name and no open descriptor (busy) refers to
FsFree(f, busy) == {i \in Inodes : i \notin busy /\ \A p \in Paths : f.dir[p] # i}

\* an inode that nothing refers to any more holds nothing
FsGc(f, busy) ==
    [f EXCEPT !.data = [i \in Inodes |-> IF i \in FsFree(f, busy) THEN <<>> ELSE f.data[i]]]

\* the same directory with the inodes numbered by the names that hold them
\* (no descriptor is open): inode numbers are not observable
FsSlot(p) == IF p = TOKEN_FILE THEN 1 ELSE IF p = BAK_FILE THEN 2 ELSE 3

FsNormal(f) ==
    [dir |-> [p \in Paths |-> IF FsExists(f, p) THEN FsSlot(p) ELSE 0],
     data |-> [i \in Inodes |->
                 IF \E p \in Paths : FsSlot(p) = i /\ FsExists(f, p)
                 THEN FsRead(f, CHOOSE p \in Paths : FsSlot(p) = i)
                 ELSE <<>>]]

\* the directory once a call has dropped a name or a descriptor
FsSettle(f, busy) == IF busy = {} THEN FsNormal(FsGc(f, busy)) ELSE FsGc(f, busy)

\* Path(src).replace(dst) of an existing src: dst names src's inode, src is gone
FsReplace(f, src, dst, busy) ==
    FsSettle([f EXCEPT !.dir = [f.dir EXCEPT ![dst] = f.dir[src], ![src] = 0]], busy)

\* open(p, 'w'): the inode p names, emptied; a new inode when p names none
FsOpenInode(f, p, busy) ==
    IF FsExists(f, p) THEN f.dir[p]
    ELSE CHOOSE i \in FsFree(f, busy) : \A j \in FsFree(f, busy) : i <= j

FsOpenW(f, p, busy) ==
    LET i == FsOpenInode(f, p, busy)
    IN  [dir |-> [f.dir EXCEPT ![p] = i], data |-> [f.data EXCEPT ![i] = <<>>]]

\* the flush of a descriptor opened with 'w': buf lands at offset 0 of the
\* inode, over what the inode holds by then
FsWrite(f, i, buf) ==
    [f EXCEPT !.data[i] = buf \o SubSeq(f.data[i], Len(buf) + 1, Len(f.data[i]))]

\* a directory in which TOKEN_FILE holds text t
FileWith(t) ==
    [dir |-> [NoFile EXCEPT ![TOKEN_FILE] = 1], data |-> [NoData EXCEPT ![1] = t]]

FileAbsent == [dir |-> NoFile, data |-> NoData]

----------------------------------------------------------------------------
(* load_tokens *)

\* the length a token of the file must exceed (server.py:41 and :49)
MinTokenLen == 10

\* a variant that keeps every str element of the list
TokensOfListUnfiltered(items) ==
    {items[i].s : i \in {j \in 1..Len(items) : items[j].k = "str"}}

\* Attempt 1: the list's str elements longer than MinTokenLen
TokensOfList(items) ==
    {items[i].s : i \in {j \in 1..Len(items) :
                            items[j].k = "str" /\ Len(items[j].s) > MinTokenLen}}

\* Attempt 2: line-by-line recovery
TokensOfLines(content) ==
    {Strip(line) : line \in {l \in Range(SplitLines(content)) :
                                Len(Strip(l)) > MinTokenLen /\ Contains(l, ":")}}

\* ioOk = FALSE: open() or read() raises, which the outer except absorbs
load_tokens(f, ioOk) ==
    IF ~FsExists(f, TOKEN_FILE) THEN {}
    ELSE IF ~ioOk THEN {}
    ELSE LET content == Strip(FsRead(f, TOKEN_FILE))
             data == json_loads(content)
         IN  IF content = <<>> THEN {}
             ELSE IF data.ok /\ data.v.k = "list" THEN TokensOfList(data.v.items)
             ELSE TokensOfLines(content)

----------------------------------------------------------------------------
(* save_tokens, run without interruption by another thread *)

\* where an I/O call of save_tokens may raise
SaveFailures == {"none", "backup", "open", "write", "replace"}

SaveBackup(f, failAt) ==
    IF FsExists(f, TOKEN_FILE) /\ failAt # "backup"
    THEN FsReplace(f, TOKEN_FILE, BAK_FILE, {})
    ELSE f

\* order: list(registered_tokens). Any exception ends the save (line 71).
save_tokens(f, order, failAt) ==
    IF FsExists(f, TOKEN_FILE) /\ failAt = "backup" THEN f
    ELSE LET f1 == SaveBackup(f, failAt)
             f2 == FsOpenW(f1, TEMP_FILE, {})
             f3 == FsWrite(f2, f2.dir[TEMP_FILE], json_dump(order))
         IN  IF failAt = "open" THEN f1
             ELSE IF failAt = "write" THEN f2
             ELSE IF failAt = "replace" THEN f3
             ELSE FsReplace(f3, TEMP_FILE, TOKEN_FILE, {})

\* whether that run of save_tokens raised
SaveRaised(f, failAt) ==
    failAt \in {"open", "write", "replace"} \/ (failAt = "backup" /\ FsExists(f, TOKEN_FILE))

----------------------------------------------------------------------------
(* Inputs: tokens, request bodies of /register, token files found at start *)

TokA == Rep("a", 10) \o <<":", "a">>
TokC == Rep("c", 9) \o <<"\"", ":", "c">>
TokShort == <<"x", ":", "x">>
NoSeparator == Rep("a", 12)

\* the value of data['token']: a string, or the number 1
TokenValues ==
    {JStr(TokA), JStr(<<" ">> \o TokA \o <<"\n">>), JStr(TokC), JStr(TokShort),
     JStr(NoSeparator), JStr(<<" ", " ">>), JNum}

\* request.get_json(): None, an object without 'token', one with it
Payloads ==
    {[body |-> b, val |-> JNone] : b \in {"none", "nokey"}}
        \cup {[body |-> "token", val |-> v] : v \in TokenValues}

\* str(v)
PyStr(v) == IF v.k = "str" THEN v.s ELSE <<"1">>

\* a list edited by hand: a short string, a number, a string without ':'
MixedList ==
    <<"[">> \o DumpString(TokShort) \o <<",", " ", "1", ",", " ">>
        \o DumpString(NoSeparator) \o <<"]">>

\* a JSON object on one line
ObjectText == <<"{">> \o DumpString(TokA) \o <<":", " ", "1", "}">>

\* a dump cut short inside its second string
TruncatedText == SubSeq(json_dump(<<TokA, TokC>>), 1, 26)

\* one token a line, not JSON
LinesText == TokA \o <<"\n">> \o TokShort \o <<"\n", " ">> \o TokC \o <<" ", "\n">>

\* a list whose first string is empty
BlankList == json_dump(<<<<>>, TokA>>)

InitTexts ==
    {<<>>, <<" ", "\n">>, json_dump(<<>>), json_dump(<<TokA>>), MixedList, ObjectText,
     TruncatedText, LinesText, BlankList}

InitFiles == {FileAbsent} \cup {FileWith(t) : t \in InitTexts}

----------------------------------------------------------------------------
(* register_device and force_reload *)

\* a variant that refuses a token the store already holds
RegisterCodeRejectKnown(p) ==
    IF p.body # "token" THEN 400
    ELSE IF Strip(PyStr(p.val)) = <<>> \/ ~Contains(Strip(PyStr(p.val)), ":") THEN 400
    ELSE IF Strip(PyStr(p.val)) \in registered_tokens THEN 409
    ELSE 200

\* a variant that does not look for the separator
RegisterCodeNoSeparator(p) ==
    IF p.body # "token" THEN 400
    ELSE IF Strip(PyStr(p.val)) = <<>> THEN 400
    ELSE 200

\* lines 122-128: the status the request is refused with, 200 when it is not
RegisterCode(p) ==
    IF p.body # "token" THEN 400
    ELSE IF Strip(PyStr(p.val)) = <<>> \/ ~Contains(Strip(PyStr(p.val)), ":") THEN 400
    ELSE 200

RegisterMessage(p) ==
    IF p.body # "token" THEN "Missing token"
    ELSE IF RegisterCode(p) = 400 THEN "Invalid token format"
    ELSE ""

\* line 126
RegisterToken(p) == Strip(PyStr(p.val))

\* lines 135-139, evaluated on the set as it is after the add
RegisterBody(token, toks) ==
    [status |-> "success", message |-> "", total_devices |-> Cardinality(toks),
     is_new |-> token \notin toks]

ErrorBody(msg) ==
    [status |-> "error", message |-> msg, total_devices |-> 0, is_new |-> FALSE]

\* n: requests handled; again: the request repeats the one before it;
\* save: "none" when save_tokens was not called, "ok", or the call that raised;
\* pure: the set holds only what /register put there
NoRequest == [n |-> 0, op |-> "init", req |-> [body |-> "none", val |-> JNone],
              again |-> FALSE, code |-> 0, body |-> ErrorBody(""), save |-> "none",
              ioOk |-> TRUE, pure |-> TRUE]

\* POST /register handled to its response. failAt and order matter only
\* when the token is new, which is when save_tokens runs.
register_device(p) ==
    LET token == RegisterToken(p)
        added == RegisterCode(p) = 200 /\ token \notin registered_tokens
        toks == IF added THEN registered_tokens \cup {token} ELSE registered_tokens
        answer(saved) ==
            [n |-> last.n + 1, op |-> "register", req |-> p,
             again |-> (last.op = "register" /\ last.req = p), code |-> RegisterCode(p),
             body |-> IF RegisterCode(p) = 200 THEN RegisterBody(token, toks)
                      ELSE ErrorBody(RegisterMessage(p)),
             save |-> saved, ioOk |-> TRUE, pure |-> last.pure]
    IN  /\ last.n < MaxRequests
        /\ registered_tokens' = toks
        /\ IF added
           THEN \E order \in Orders(toks), failAt \in SaveFailures :
                    /\ fs' = FsNormal(save_tokens(fs, order, failAt))
                    /\ last' = answer(IF SaveRaised(fs, failAt) THEN failAt ELSE "ok")
           ELSE fs' = fs /\ last' = answer("none")
        /\ UNCHANGED <<accepted, reg, ever, bc, rt>>

Register == \E p \in Payloads : register_device(p)

\* POST /force_reload
force_reload(ioOk) ==
    /\ last.n < MaxRequests
    /\ registered_tokens' = load_tokens(fs, ioOk)
    /\ last' = [n |-> last.n + 1, op |-> "force_reload", req |-> [body |-> "none", val |-> JNone],
                again |-> FALSE, code |-> 200,
                body |-> [status |-> "success", message |-> "",
                          total_devices |-> Cardinality(load_tokens(fs, ioOk)),
                          is_new |-> FALSE],
                save |-> "none", ioOk |-> ioOk, pure |-> FALSE]
    /\ UNCHANGED <<fs, accepted, reg, ever, bc, rt>>

ForceReload == \E ioOk \in BOOLEAN : force_reload(ioOk)

Idle == [pc |-> "idle"]

\* line 75: the set is loaded from whatever file the process finds
Init ==
    /\ fs \in InitFiles
    /\ \E ioOk \in BOOLEAN :
           /\ registered_tokens = load_tokens(fs, ioOk)
           /\ last = [NoRequest EXCEPT !.ioOk = ioOk, !.pure = ~FsExists(fs, TOKEN_FILE)]
    /\ accepted = {}
    /\ reg = [c \in 1..NumCallers |-> Idle]
    /\ ever = {}
    /\ bc = Idle
    /\ rt = Idle

Next == Register \/ ForceReload

\* the server handling one request at a time
Spec == Init /\ [][Next]_vars

----------------------------------------------------------------------------
(* send_fcm_notification_with_retry *)

\* the default of the parameter max_retries (line 199)
DefaultMaxRetries == 3

\* what one pass of the try block does: the send answers 2xx; or the
\* credential exchange raises (lines 204-208); or the send fails, requests.post
\* or raise_for_status raising (lines 210-231)
Outcomes == {"ok", "credential_error", "send_error"}

\* a variant whose except clause lets a failed credential exchange through
CaughtSendOnly(o) == o = "send_error"

\* line 234, except Exception: what raised inside the try block is caught,
\* from the credential exchange or from the send
Caught(o) == o \in {"credential_error", "send_error"}

\* line 201
LoopGuard(attempt, max_retries) == attempt <= max_retries

\* a variant that gives up one attempt early
ShouldRetryEarly(attempt, max_retries) == attempt < max_retries

\* line 235
ShouldRetry(attempt, max_retries) == attempt <= max_retries

\* a variant whose delay grows linearly
BackoffLinear(attempt) == 2 * attempt

\* line 236: seconds slept after the failed attempt
Backoff(attempt) == 2 ^ attempt

\* the call's frame on entry; log and sleeps record what it has done,
\* exchanges counts the calls of credentials.refresh (line 208); pc "raised"
\* is the call left by an exception
RetryFrame(token, max_retries) ==
    [pc |-> "loop", token |-> token, max_retries |-> max_retries, attempt |-> 0,
     success |-> FALSE, log |-> <<>>, sleeps |-> <<>>, exchanges |-> 0]

\* one pass of the loop body, lines 201-239
RetryAttempt ==
    /\ rt.pc = "loop"
    /\ LoopGuard(rt.attempt, rt.max_retries)
    /\ \E o \in Outcomes :
           LET attempt == rt.attempt + 1
               tried == [rt EXCEPT !.attempt = attempt, !.log = Append(@, o),
                                   !.exchanges = @ + 1]
           IN  rt' = IF o = "ok"
                     THEN [tried EXCEPT !.pc = "returned", !.success = TRUE]
                     ELSE IF ~Caught(o)
                     THEN [tried EXCEPT !.pc = "raised"]
                     ELSE IF ShouldRetry(attempt, rt.max_retries)
                     THEN [tried EXCEPT !.sleeps = Append(@, Backoff(attempt))]
                     ELSE [tried EXCEPT !.pc = "returned", !.success = FALSE]
    /\ UNCHANGED <<registered_tokens, fs, last, accepted, reg, ever, bc>>

\* a caller invokes the function on its own
RetryCall ==
    /\ rt.pc = "idle"
    /\ \E m \in 0..MaxRetriesBound : rt' = RetryFrame(TokA, m)
    /\ UNCHANGED <<registered_tokens, fs, last, accepted, reg, ever, bc>>

\* that caller takes the result
RetryReturn ==
    /\ rt.pc = "returned"
    /\ rt' = Idle
    /\ UNCHANGED <<registered_tokens, fs, last, accepted, reg, ever, bc>>

InitRetry ==
    /\ fs = FileAbsent
    /\ registered_tokens = {}
    /\ last = NoRequest
    /\ accepted = {}
    /\ reg = [c \in 1..NumCallers |-> Idle]
    /\ ever = {}
    /\ bc = Idle
    /\ rt = Idle

NextRetry == RetryCall \/ RetryAttempt \/ RetryReturn

SpecRetry == InitRetry /\ [][NextRetry]_vars

\* a call that has started runs on: each pass ends, every provider call
\* being bounded by its timeout (line 229) and every sleep being finite
SpecRetryFair == SpecRetry /\ WF_vars(RetryAttempt)

----------------------------------------------------------------------------
(* register_device run by concurrent callers, one step per shared access *)

\* what the concurrent callers send
ConcPayloads ==
    {[body |-> "token", val |-> v] :
        v \in {JStr(TokC), JStr(<<" ">> \o TokShort), JStr(NoSeparator)}}

\* the token files the concurrent server starts from
ConcInitFiles == {FileAbsent, FileWith(json_dump(<<TokC>>))}

Callers == DOMAIN reg

\* inodes some caller holds open for writing
Busy == {reg[c].fd : c \in {d \in Callers : reg[d].pc \in {"dump", "close"}}}

\* the in-memory set takes the value toks: the histories follow, and so does
\* the set object a running broadcast iterates, when it is this object
SetTokens(toks) ==
    /\ registered_tokens' = toks
    /\ ever' = [ever EXCEPT !.seen = @ \cup {toks}]

Goto(c, pc) == reg' = [reg EXCEPT ![c].pc = pc]

\* lines 122-128: the request is read and the token validated
RegStart(c) ==
    /\ reg[c].pc = "idle"
    /\ \E p \in ConcPayloads :
           reg' = [reg EXCEPT ![c] =
                     [pc |-> IF RegisterCode(p) = 200 THEN "check" ELSE "done",
                      req |-> p, token |-> RegisterToken(p), fd |-> 0, buf |-> <<>>,
                      code |-> RegisterCode(p), body |-> ErrorBody(RegisterMessage(p))]]
    /\ UNCHANGED <<registered_tokens, fs, last, accepted, ever, bc, rt>>

\* line 130
RegCheck(c) ==
    /\ reg[c].pc = "check"
    /\ Goto(c, IF reg[c].token \notin registered_tokens THEN "add" ELSE "respond")
    /\ UNCHANGED <<registered_tokens, fs, last, accepted, ever, bc, rt>>

\* a variant that adds the token to the set as the file has it
RegAddReloaded(c) ==
    /\ reg[c].pc = "add"
    /\ SetTokens(load_tokens(fs, TRUE) \cup {reg[c].token})
    /\ bc' = bc
    /\ Goto(c, "exists")
    /\ UNCHANGED <<fs, last, accepted, rt>>

\* line 131
RegAdd(c) ==
    /\ reg[c].pc = "add"
    /\ SetTokens(registered_tokens \cup {reg[c].token})
    /\ bc' = IF bc.pc \in {"next", "sending"} /\ bc.same
             THEN [bc EXCEPT !.obj = @ \cup {reg[c].token}] ELSE bc
    /\ Goto(c, "exists")
    /\ UNCHANGED <<fs, last, accepted, rt>>

\* line 61
RegSaveExists(c) ==
    /\ reg[c].pc = "exists"
    /\ Goto(c, IF FsExists(fs, TOKEN_FILE) THEN "backup" ELSE "open")
    /\ UNCHANGED <<registered_tokens, fs, last, accepted, ever, bc, rt>>

\* line 62: FileNotFoundError, when another caller has renamed the file
\* since line 61, ends the save at line 71
RegSaveBackup(c) ==
    /\ reg[c].pc = "backup"
    /\ IF FsExists(fs, TOKEN_FILE)
       THEN fs' = FsReplace(fs, TOKEN_FILE, BAK_FILE, Busy) /\ Goto(c, "open")
       ELSE fs' = fs /\ Goto(c, "respond")
    /\ UNCHANGED <<registered_tokens, last, accepted, ever, bc, rt>>

\* line 66, open
RegSaveOpen(c) ==
    /\ reg[c].pc = "open"
    /\ fs' = FsOpenW(fs, TEMP_FILE, Busy)
    /\ reg' = [reg EXCEPT ![c].pc = "dump", ![c].fd = FsOpenInode(fs, TEMP_FILE, Busy)]
    /\ UNCHANGED <<registered_tokens, last, accepted, ever, bc, rt>>

\* line 67: list(registered_tokens) is serialised into the file's buffer
RegSaveDump(c) ==
    /\ reg[c].pc = "dump"
    /\ \E order \in Orders(registered_tokens) :
           reg' = [reg EXCEPT ![c].pc = "close", ![c].buf = json_dump(order)]
    /\ UNCHANGED <<registered_tokens, fs, last, accepted, ever, bc, rt>>

\* the end of the with block of line 66: the buffer is flushed, the file closed
RegSaveClose(c) ==
    /\ reg[c].pc = "close"
    /\ fs' = FsSettle(FsWrite(fs, reg[c].fd, reg[c].buf), Busy \ {reg[c].fd})
    /\ reg' = [reg EXCEPT ![c].pc = "replace", ![c].fd = 0, ![c].buf = <<>>]
    /\ UNCHANGED <<registered_tokens, last, accepted, ever, bc, rt>>

\* line 70: FileNotFoundError, when another caller has renamed the temp file
RegSaveReplace(c) ==
    /\ reg[c].pc = "replace"
    /\ fs' = IF FsExists(fs, TEMP_FILE) THEN FsReplace(fs, TEMP_FILE, TOKEN_FILE, Busy) ELSE fs
    /\ Goto(c, "respond")
    /\ UNCHANGED <<registered_tokens, last, accepted, ever, bc, rt>>

\* lines 133-139
RegRespond(c) ==
    /\ reg[c].pc = "respond"
    /\ reg' = [reg EXCEPT ![c].pc = "done",
                          ![c].body = RegisterBody(reg[c].token, registered_tokens)]
    /\ accepted' = accepted \cup {reg[c].token}
    /\ UNCHANGED <<registered_tokens, fs, last, ever, bc, rt>>

\* some caller takes its next step
RegStep ==
    \/ \E c \in Callers : RegStart(c)
    \/ \E c \in Callers : RegCheck(c)
    \/ \E c \in Callers : RegAdd(c)
    \/ \E c \in Callers : RegSaveExists(c)
    \/ \E c \in Callers : RegSaveBackup(c)
    \/ \E c \in Callers : RegSaveOpen(c)
    \/ \E c \in Callers : RegSaveDump(c)
    \/ \E c \in Callers : RegSaveClose(c)
    \/ \E c \in Callers : RegSaveReplace(c)
    \/ \E c \in Callers : RegRespond(c)

InitConc ==
    /\ fs \in ConcInitFiles
    /\ registered_tokens = load_tokens(fs, TRUE)
    /\ last = NoRequest
    /\ accepted = {}
    /\ reg = [c \in 1..NumCallers |-> Idle]
    /\ ever = [init |-> registered_tokens, seen |-> {registered_tokens}]
    /\ bc = Idle
    /\ rt = Idle

NextConc == RegStep

\* NumCallers threads, each handling one POST /register
SpecConc == InitConc /\ [][NextConc]_vars

----------------------------------------------------------------------------
(* send_loot_notification, run by a webhook thread beside the other threads *)

\* line 182: token[:10] + "..."
Redact(token) ==
    SubSeq(token, 1, IF Len(token) < 10 THEN Len(token) ELSE 10) \o <<".", ".", ".">>

\* a variant of the loop that ends at the first failed delivery
IterNextStopOnFailure(b) ==
    IF Cardinality(b.obj) # b.used
    THEN bc' = [b EXCEPT !.pc = "done", !.code = 500] /\ rt' = rt
    ELSE IF b.todo = {} \/ (b.results # <<>> /\ b.results[Len(b.results)].status = "failed")
    THEN bc' = [b EXCEPT !.pc = "done", !.code = 200] /\ rt' = rt
    ELSE \E token \in b.todo :
             /\ bc' = [b EXCEPT !.pc = "sending", !.todo = @ \ {token},
                                !.sent = @ \cup {token}]
             /\ rt' = RetryFrame(token, DefaultMaxRetries)

\* line 179, next() on the iterator b: a set whose size has changed raises
\* RuntimeError, which webhook answers with 500 (lines 163-165); an
\* exhausted iterator ends the loop and the report is returned (lines
\* 187-197); otherwise the token goes to line 180
IterNext(b) ==
    IF Cardinality(b.obj) # b.used
    THEN bc' = [b EXCEPT !.pc = "done", !.code = 500] /\ rt' = rt
    ELSE IF b.todo = {}
    THEN bc' = [b EXCEPT !.pc = "done", !.code = 200] /\ rt' = rt
    ELSE \E token \in b.todo :
             /\ bc' = [b EXCEPT !.pc = "sending", !.todo = @ \ {token},
                                !.sent = @ \cup {token}]
             /\ rt' = RetryFrame(token, DefaultMaxRetries)

\* lines 178-179, results = [] and iter(registered_tokens): the iterator
\* keeps the set object (obj, which is the global's object while same holds)
\* and its size (used); todo is what it has not produced yet. start and sent
\* are histories, and so is outage: no provider call has succeeded so far.
IterFrame ==
    [pc |-> "next", obj |-> registered_tokens, same |-> TRUE,
     used |-> Cardinality(registered_tokens), todo |-> registered_tokens,
     start |-> registered_tokens, sent |-> {}, results |-> <<>>, code |-> 0,
     outage |-> TRUE]

\* line 179, iter(registered_tokens) and the first next(), between which the
\* interpreter switches to no other thread
BcStart ==
    /\ bc.pc = "idle"
    /\ IterNext(IterFrame)
    /\ UNCHANGED <<registered_tokens, fs, last, accepted, reg, ever>>

\* line 179, a later next()
BcNext ==
    /\ bc.pc = "next"
    /\ IterNext(bc)
    /\ UNCHANGED <<registered_tokens, fs, last, accepted, reg, ever>>

\* line 183
EntryStatus(success) == IF success THEN "success" ELSE "failed"

\* a variant in which a delivery that failed ends the request with an error
BcCollectRaise ==
    /\ bc.pc = "sending"
    /\ rt.pc = "returned"
    /\ bc' = IF rt.success
             THEN [bc EXCEPT !.pc = "next", !.outage = FALSE,
                             !.results = Append(@, [token |-> Redact(rt.token),
                                                    status |-> EntryStatus(rt.success),
                                                    attempts |-> rt.attempt])]
             ELSE [bc EXCEPT !.pc = "done", !.code = 500]
    /\ rt' = Idle
    /\ UNCHANGED <<registered_tokens, fs, last, accepted, reg, ever>>

\* lines 180-185
BcCollect ==
    /\ bc.pc = "sending"
    /\ rt.pc = "returned"
    /\ bc' = [bc EXCEPT !.pc = "next",
                        !.outage = @ /\ (\A i \in 1..Len(rt.log) : rt.log[i] # "ok"),
                        !.results = Append(@, [token |-> Redact(rt.token),
                                               status |-> EntryStatus(rt.success),
                                               attempts |-> rt.attempt])]
    /\ rt' = Idle
    /\ UNCHANGED <<registered_tokens, fs, last, accepted, reg, ever>>

\* POST /force_reload beside the other threads: the global is bound to a new
\* set, the set object of a running loop is no longer the global's
ConcForceReload ==
    /\ \E ioOk \in BOOLEAN : SetTokens(load_tokens(fs, ioOk))
    /\ bc' = IF bc.pc \in {"next", "sending"} THEN [bc EXCEPT !.same = FALSE] ELSE bc
    /\ UNCHANGED <<fs, last, accepted, reg, rt>>

InitBcast ==
    /\ fs \in ConcInitFiles
    /\ registered_tokens = load_tokens(fs, TRUE)
    /\ last = NoRequest
    /\ accepted = {}
    /\ reg = [c \in {1} |-> Idle]
    /\ ever = [init |-> registered_tokens, seen |-> {registered_tokens}]
    /\ bc = Idle
    /\ rt = Idle

NextBcast ==
    \/ BcStart \/ BcNext \/ BcCollect \/ RetryAttempt
    \/ ConcForceReload
    \/ RegStep

\* one webhook with a non-empty item list, one POST /register and any number
\* of POST /force_reload, each in its own thread
SpecBcast == InitBcast /\ [][NextBcast]_vars

----------------------------------------------------------------------------
(* webhook: the form is read, the top item chosen, the broadcast run *)

\* Largest number of items in a webhook payload.
MaxItems == 2

\* decoded JSON as webhook handles it: a number, a string, a list, a dict
DNum(n) == [k |-> "num", n |-> n]
DStr(t) == [k |-> "str", s |-> t]
DList(l) == [k |-> "list", l |-> l]
DDict(d) == [k |-> "dict", d |-> d]

\* what json.loads returns for the values the parser above produces: the
\* only number of its texts is 1, and its objects hold no key webhook asks for
FromJson(v) ==
    IF v.k = "num" THEN DNum(1)
    ELSE IF v.k = "str" THEN DStr(v.s)
    ELSE IF v.k = "list" THEN DList([i \in 1..Len(v.items) |-> DStr(v.items[i].s)])
    ELSE DDict(<<>>)

\* request.form: no payload_json field; a field holding text; a field whose
\* text decodes to val
NoForm == [kind |-> "absent"]
TextForm(t) == [kind |-> "text", text |-> t]
JsonForm(v) == [kind |-> "decoded", val |-> v]

\* line 149, json.loads(request.form['payload_json']); ok = FALSE stands
\* for JSONDecodeError
Decode(form) ==
    IF form.kind = "text"
    THEN [ok |-> json_loads(form.text).ok, v |-> FromJson(json_loads(form.text).v)]
    ELSE [ok |-> TRUE, v |-> form.val]

KeyText(key) ==
    IF key = "extra" THEN <<"e", "x", "t", "r", "a">> ELSE <<"i", "t", "e", "m", "s">>

\* key in v: a key of a dict, an element of a list, a substring of a str;
\* TypeError for a number
In(key, v) ==
    IF v.k = "dict" THEN (IF key \in DOMAIN v.d THEN "yes" ELSE "no")
    ELSE IF v.k = "list" THEN (IF DStr(KeyText(key)) \in Range(v.l) THEN "yes" ELSE "no")
    ELSE IF v.k = "str"
    THEN (IF \E i \in 1..Len(v.s) : i + Len(KeyText(key)) - 1 <= Len(v.s)
                    /\ SubSeq(v.s, i, i + Len(KeyText(key)) - 1) = KeyText(key)
          THEN "yes" ELSE "no")
    ELSE "raise"

\* the truth value of v (line 152)
Truthy(v) ==
    IF v.k = "dict" THEN DOMAIN v.d # {}
    ELSE IF v.k = "list" THEN v.l # <<>>
    ELSE IF v.k = "str" THEN v.s # <<>>
    ELSE v.n # 0

\* x.get(key, default)
Get(x, key, default) == IF key \in DOMAIN x.d THEN x.d[key] ELSE default

\* line 153, the key of max
ItemValue(x) == Get(x, "priceEach", 0) * Get(x, "quantity", 1)

\* a variant of max that lets a later item of equal value win
ReplacesOrEqual(candidate, best) == candidate >= best

\* max(iterable, key=...): the item kept is replaced by a later one only
\* when that one's key is greater
Replaces(candidate, best) == candidate > best

\* max over items[i..], best being the index kept so far
RECURSIVE MaxFrom(_, _, _)
MaxFrom(items, i, best) ==
    IF i > Len(items) THEN best
    ELSE IF Replaces(ItemValue(items[i]), ItemValue(items[best]))
    THEN MaxFrom(items, i + 1, i)
    ELSE MaxFrom(items, i + 1, best)

\* line 153: the index of top_item in items
TopItem(items) == MaxFrom(items, 2, 1)

\* lines 148-153: where the request goes. "ignored" is line 161, "error"
\* the except clause of lines 163-165, "send" the call of line 154.
\* Indexing a list or a str with 'extra' raises TypeError; max over anything
\* but a list of dicts raises TypeError or AttributeError (x.get).
Route(form) ==
    IF form.kind = "absent" THEN "ignored"
    ELSE IF ~Decode(form).ok THEN "error"
    ELSE LET payload == Decode(form).v
         IN  IF In("extra", payload) = "raise" THEN "error"
             ELSE IF In("extra", payload) = "no" THEN "ignored"
             ELSE IF payload.k # "dict" THEN "error"
             ELSE IF In("items", payload.d.extra) = "raise" THEN "error"
             ELSE IF In("items", payload.d.extra) = "no" THEN "ignored"
             ELSE IF payload.d.extra.k # "dict" THEN "error"
             ELSE LET items == payload.d.extra.d.items
                  IN  IF ~Truthy(items) THEN "ignored"
                      ELSE IF items.k = "list" /\ \A i \in 1..Len(items.l) : items.l[i].k = "dict"
                      THEN "send"
                      ELSE "error"

\* the items of a request that reaches line 153
ItemsOf(form) == Decode(form).v.d.extra.d.items.l

\* the items a payload may list: name, quantity and priceEach, or fewer keys
Item(name, quantity, priceEach) ==
    DDict([name |-> name, quantity |-> quantity, priceEach |-> priceEach])

ItemPool ==
    {Item("rune", 1, 6), Item("coal", 2, 3), Item("bones", 3, 1),
     DDict([name |-> "ashes", quantity |-> 7])}

ItemLists == UNION {[1..n -> ItemPool] : n \in 0..MaxItems}

WithItems(items) == JsonForm(DDict([extra |-> DDict([items |-> items])]))

\* the forms the webhook is called with
Forms ==
    {NoForm, TextForm(TruncatedText), TextForm(<<"1">>), TextForm(json_dump(<<TokA>>)),
     TextForm(<<"{", "}">>),
     JsonForm(DDict([extra |-> DNum(1)])), JsonForm(DDict([extra |-> DDict(<<>>)])),
     WithItems(DNum(0)), WithItems(DNum(1)), WithItems(DStr(<<"a">>)),
     WithItems(DList(<<DNum(1)>>))}
        \cup {WithItems(DList(l)) : l \in ItemLists}

\* the response's status field (lines 161, 165, 191)
WebhookStatus(b) ==
    IF b.code = 500 THEN "error" ELSE IF b.route = "send" THEN "success" ELSE "ignored"

\* POST /webhook up to its response or, for a request that reaches line 154,
\* up to the first token of the loop of send_loot_notification. req, route
\* and top (the index of top_item, 0 when none is chosen) record the request.
webhook(form) ==
    LET frame == [req |-> form, route |-> Route(form),
                  top |-> IF Route(form) = "send" THEN TopItem(ItemsOf(form)) ELSE 0]
                     @@ IterFrame
    IN  /\ bc.pc = "idle"
        /\ IF Route(form) = "send" THEN IterNext(frame)
           ELSE /\ bc' = [frame EXCEPT !.pc = "done",
                                       !.code = IF Route(form) = "error" THEN 500 ELSE 200]
                /\ rt' = rt
        /\ UNCHANGED <<registered_tokens, fs, last, accepted, reg, ever>>

Webhook == \E form \in Forms : webhook(form)

\* the response is sent, the server takes the next request
WebhookReturn ==
    /\ bc.pc = "done"
    /\ bc' = Idle
    /\ UNCHANGED <<registered_tokens, fs, last, accepted, reg, ever, rt>>

\* the token files the webhook server starts from
WebhookInitFiles ==
    {FileAbsent, FileWith(json_dump(<<TokA>>)), FileWith(json_dump(<<TokA, TokC>>))}

InitWebhook ==
    /\ fs \in WebhookInitFiles
    /\ registered_tokens = load_tokens(fs, TRUE)
    /\ last = NoRequest
    /\ accepted = {}
    /\ reg = [c \in 1..NumCallers |-> Idle]
    /\ ever = {}
    /\ bc = Idle
    /\ rt = Idle

NextWebhook == Webhook \/ BcNext \/ BcCollect \/ RetryAttempt \/ WebhookReturn

\* POST /webhook requests handled one after the other, nothing else running
SpecWebhook == InitWebhook /\ [][NextWebhook]_vars

----------------------------------------------------------------------------
(* Claims about the server handling one request at a time (Spec) *)

\* a token as the caller sent it is well-formed: not empty once stripped,
\* and it holds ':'
WellFormed(p) ==
    /\ p.body = "token"
    /\ Strip(PyStr(p.val)) # <<>>
    /\ Contains(Strip(PyStr(p.val)), ":")

\* C1: registering the same well-formed token twice in a row succeeds both
\* times (200, "success"), the second call reports the total_devices of the
\* first, and the in-memory set after the second call is the set after the
\* first.
C1_RegisterTwice ==
    [][(last.op = "register" /\ last'.op = "register" /\ last'.n = last.n + 1
            /\ last'.req = last.req /\ WellFormed(last.req))
        => (/\ last.code = 200 /\ last.body.status = "success"
            /\ last'.code = 200 /\ last'.body.status = "success"
            /\ last'.body.total_devices = last.body.total_devices
            /\ registered_tokens' = registered_tokens)]_vars

\* C1 witness: a well-formed token was registered twice in a row, the first
\* call having added it to a store that held other tokens.
C1_Witness ==
    /\ last.op = "register" /\ last.again /\ WellFormed(last.req)
    /\ last.body.total_devices > 1

\* C2: a register request whose token is missing, empty once stripped or
\* without ':' is answered 400 and changes neither the in-memory set nor any
\* file, save_tokens not being called.
C2_InvalidRejected ==
    [][(last'.op = "register" /\ last'.n = last.n + 1 /\ ~WellFormed(last'.req))
        => (/\ last'.code = 400 /\ last'.body.status = "error"
            /\ last'.save = "none"
            /\ registered_tokens' = registered_tokens
            /\ fs' = fs)]_vars

\* C2 witness: a token without ':' was refused by a store that holds tokens
\* and has a token file.
C2_Witness ==
    /\ last.op = "register" /\ last.code = 400
    /\ last.req.body = "token" /\ PyStr(last.req.val) = NoSeparator
    /\ registered_tokens # {} /\ FsExists(fs, TOKEN_FILE)

\* C3: after a register call whose save_tokens ran without error, on a set
\* built by register calls alone, load_tokens returns exactly the in-memory
\* set.
C3_SaveLoadRoundTrip ==
    (last.op = "register" /\ last.save = "ok" /\ last.pure)
        => load_tokens(fs, TRUE) = registered_tokens

\* the file holds a complete JSON array of strings listing exactly toks
HoldsArrayOf(f, toks) ==
    /\ FsExists(f, TOKEN_FILE)
    /\ LET data == json_loads(FsRead(f, TOKEN_FILE))
       IN  /\ data.ok /\ data.v.k = "list"
           /\ \A i \in 1..Len(data.v.items) : data.v.items[i].k = "str"
           /\ {data.v.items[i].s : i \in 1..Len(data.v.items)} = toks

\* C8: when renaming the token file to .bak fails, save_tokens still writes
\* the temp file and renames it, so the token file holds the new full set.
C8_BackupBestEffort ==
    (last.op = "register" /\ last.save = "backup") => HoldsArrayOf(fs, registered_tokens)

\* the load the claim describes: a JSON list yields its string elements
ClaimedLoad(f, ioOk) ==
    IF ~FsExists(f, TOKEN_FILE) \/ ~ioOk THEN {}
    ELSE LET content == Strip(FsRead(f, TOKEN_FILE))
             data == json_loads(content)
         IN  IF content = <<>> THEN {}
             ELSE IF data.ok /\ data.v.k = "list"
                  THEN {data.v.items[i].s :
                           i \in {j \in 1..Len(data.v.items) : data.v.items[j].k = "str"}}
             ELSE {Strip(l) : l \in {x \in Range(SplitLines(content)) :
                                        Len(Strip(x)) > 10 /\ Contains(Strip(x), ":")}}

\* C9: load_tokens yields the empty set for an absent or empty file, the
\* string elements of a JSON list, the stripped lines longer than 10
\* characters holding ':' for anything else, and the empty set on failure.
C9_LoadFallback ==
    last.op \in {"init", "force_reload"} => registered_tokens = ClaimedLoad(fs, last.ioOk)

----------------------------------------------------------------------------
(* Claims about send_fcm_notification_with_retry (SpecRetry) *)

AllFailed(log) == \A i \in 1..Len(log) : log[i] # "ok"

\* C4: a call never makes more than max_retries + 1 attempts; when every
\* attempt fails it ends, after exactly max_retries + 1 attempts, returning
\* (False, max_retries + 1).
C4_ExhaustedRetries ==
    /\ [](rt.pc # "idle" =>
            /\ Len(rt.log) <= rt.max_retries + 1
            /\ (rt.pc = "returned" /\ AllFailed(rt.log)) =>
                   /\ ~rt.success
                   /\ rt.attempt = rt.max_retries + 1
                   /\ Len(rt.log) = rt.max_retries + 1)
    /\ (rt.pc = "loop" ~> rt.pc = "returned")

\* C4 witness: a call with max_retries = 3 has returned after failures only.
C4_Witness ==
    /\ rt.pc = "returned" /\ rt.max_retries = 3
    /\ AllFailed(rt.log) /\ Len(rt.log) = 4

\* C5: a call whose first success is attempt k returns (True, k) with no
\* attempt after it; the sleep after failed attempt i is 2^i seconds; there
\* is no sleep after the failed attempt that exhausts the retries.
C5_BackoffAndEarlyReturn ==
    rt.pc # "idle" =>
        /\ \A i \in 1..Len(rt.sleeps) : rt.sleeps[i] = 2 ^ i
        /\ \A i \in 1..Len(rt.log) : rt.log[i] = "ok" => (i = Len(rt.log) /\ rt.pc = "returned")
        /\ rt.pc = "loop" => Len(rt.sleeps) = Len(rt.log)
        /\ (rt.pc = "returned" /\ rt.success) =>
               /\ rt.log[Len(rt.log)] = "ok"
               /\ rt.attempt = Len(rt.log)
               /\ Len(rt.sleeps) = rt.attempt - 1
        /\ (rt.pc = "returned" /\ ~rt.success) => Len(rt.sleeps) = Len(rt.log) - 1

\* C5 witness: two failures, then a success: (True, 3) after sleeps of 2 and 4.
C5_Witness ==
    /\ rt.pc = "returned" /\ rt.success /\ rt.attempt = 3
    /\ rt.sleeps = <<2, 4>>

----------------------------------------------------------------------------
(* Claims about concurrent callers of /register (SpecConc) *)

AllReturned == \A c \in Callers : reg[c].pc = "done"

\* the distinct well-formed tokens the callers submitted
Submitted == {Strip(PyStr(reg[c].req.val)) : c \in {d \in Callers : WellFormed(reg[d].req)}}

\* C6: once every concurrent register call has returned, the in-memory set
\* holds the tokens it started with and every distinct well-formed token
\* submitted, so that its count is the number of those tokens.
C6_NoLostUpdate ==
    AllReturned =>
        /\ registered_tokens = ever.init \cup Submitted
        /\ Cardinality(registered_tokens) = Cardinality(ever.init \cup Submitted)

\* C6 witness: all callers have returned, having submitted different new
\* tokens whose saves overlapped.
C6_Witness ==
    /\ AllReturned
    /\ Cardinality(Submitted \ ever.init) >= 2
    /\ ~HoldsArrayOf(fs, registered_tokens)

\* C7: whatever the token file holds, at any step of any interleaving of
\* save_tokens executions, is a complete JSON array of a set that the
\* in-memory set once was.
C7_NoPartialFile ==
    FsExists(fs, TOKEN_FILE) => \E toks \in ever.seen : HoldsArrayOf(fs, toks)

----------------------------------------------------------------------------
(* Claims about a broadcast beside other requests (SpecBcast) *)

\* C10: a broadcast that runs while register or force_reload run ends
\* normally, with one entry per token the store held when it started, and
\* sends to no token registered after its start.
C10_BroadcastSnapshot ==
    bc.pc = "done" =>
        /\ bc.code = 200
        /\ Len(bc.results) = Cardinality(bc.start)
        /\ bc.sent \subseteq bc.start

----------------------------------------------------------------------------
(* Claims about the webhook handled alone (SpecWebhook) *)

\* the request lists items, each an object (possibly none)
ListsItems(form) == form \in {WithItems(DList(l)) : l \in ItemLists}

\* C11: when every provider call of a webhook with a non-empty item list
\* has failed, the request ends with the normal report (200, "success")
\* holding, for each registered token, one entry with status "failed" and
\* attempts = max_retries + 1.
C11_OutageReported ==
    (bc.pc = "done" /\ bc.route = "send" /\ bc.outage) =>
        /\ bc.code = 200 /\ WebhookStatus(bc) = "success"
        /\ Len(bc.results) = Cardinality(registered_tokens)
        /\ {bc.results[i].token : i \in 1..Len(bc.results)}
               = {Redact(t) : t \in registered_tokens}
        /\ \A i \in 1..Len(bc.results) :
               /\ bc.results[i].status = "failed"
               /\ bc.results[i].attempts = DefaultMaxRetries + 1

\* C11 witness: a webhook over two tokens has ended, every call having failed.
C11_Witness ==
    /\ bc.pc = "done" /\ bc.route = "send" /\ bc.outage
    /\ Cardinality(registered_tokens) = 2 /\ Len(bc.results) = 2

\* quantity x priceEach of an item that has both
Total(x) == x.d.quantity * x.d.priceEach

Priced(items) == \A i \in 1..Len(items) : {"quantity", "priceEach"} \subseteq DOMAIN items[i].d

\* C12: for a non-empty list of items the item chosen has the greatest
\* quantity x priceEach and is the first of the list that has it; for an
\* empty list no item is chosen, nothing is sent and the answer is 200
\* {status: "ignored"}.
C12_TopItem ==
    (bc.pc # "idle" /\ ListsItems(bc.req) /\ Priced(ItemsOf(bc.req))) =>
        LET items == ItemsOf(bc.req)
        IN  IF items = <<>>
            THEN /\ bc.pc = "done" /\ bc.top = 0 /\ bc.sent = {} /\ bc.results = <<>>
                 /\ rt.pc = "idle"
                 /\ bc.code = 200 /\ WebhookStatus(bc) = "ignored"
            ELSE /\ bc.top \in 1..Len(items)
                 /\ \A j \in 1..Len(items) : Total(items[j]) <= Total(items[bc.top])
                 /\ \A j \in 1..(bc.top - 1) : Total(items[j]) < Total(items[bc.top])

\* C12 witness: two items of equal total value, the one of greater priceEach
\* second, were sent in a webhook that has ended.
C12_Witness ==
    /\ bc.pc = "done" /\ ListsItems(bc.req)
    /\ ItemsOf(bc.req) = <<Item("coal", 2, 3), Item("rune", 1, 6)>>
    /\ bc.top = 1 /\ Len(bc.results) = 2

\* C13: a webhook request without payload_json, or whose payload_json is not
\* valid JSON, lacks extra.items or has items that are not a list of objects,
\* is answered 200 {status: "ignored"} and sends nothing.
C13_MalformedIgnored ==
    (bc.pc = "done" /\ ~ListsItems(bc.req)) =>
        /\ bc.code = 200 /\ WebhookStatus(bc) = "ignored"
        /\ bc.sent = {}

\* C19: a broadcast over the set S, nothing else running, sends to every
\* token of S and reports one entry per token; each call starts afresh
\* for a token not yet sent to, whatever the entries before it; the entry
\* added for a token has status "success" exactly when the last provider
\* response to that token was a success, and attempts = the number of
\* provider responses to that token.
C19_IndependentDeliveries ==
    /\ []((bc.pc = "done" /\ bc.route = "send") =>
            /\ bc.code = 200
            /\ bc.sent = registered_tokens
            /\ Len(bc.results) = Cardinality(registered_tokens))
    /\ []((bc.pc \in {"next", "sending", "done"} /\ bc.route = "send") =>
            Len(bc.results) = Cardinality(bc.sent) - (IF bc.pc = "sending" THEN 1 ELSE 0))
    /\ [][(bc.pc = "sending" /\ bc'.pc = "next") =>
            bc'.results = Append(bc.results,
                                 [token |-> Redact(rt.token),
                                  status |-> IF rt.log[Len(rt.log)] = "ok" THEN "success"
                                             ELSE "failed",
                                  attempts |-> Len(rt.log)])]_vars
    /\ [][(bc.pc # "sending" /\ bc'.pc = "sending") =>
            /\ rt'.token \in registered_tokens \ (IF bc.pc = "idle" THEN {} ELSE bc.sent)
            /\ rt' = RetryFrame(rt'.token, DefaultMaxRetries)]_vars

\* C19 witness: a broadcast over two tokens has ended, the first delivery
\* having failed and the second succeeded at its second attempt.
C19_Witness ==
    /\ bc.pc = "done" /\ bc.route = "send" /\ Len(bc.results) = 2
    /\ bc.results[1].status = "failed"
    /\ bc.results[2].status = "success" /\ bc.results[2].attempts = 2

----------------------------------------------------------------------------
(* Further claims about the server handling one request at a time (Spec) *)

\* C14: the in-memory set never holds the empty token, and it holds no
\* token twice: every listing of it names each token once, and the count a
\* request reports is the number of distinct tokens.
C14_NoEmptyNoDuplicate ==
    /\ \A t \in registered_tokens : Len(t) > 0
    /\ \A order \in Orders(registered_tokens) :
           Cardinality(Range(order)) = Len(order)
    /\ (last.op \in {"register", "force_reload"} /\ last.code = 200) =>
           last.body.total_devices = Cardinality(registered_tokens)

\* C14 witness: the set was reloaded from a list that holds the empty string,
\* and a blank token was then refused.
C14_Witness ==
    /\ FsExists(fs, TOKEN_FILE) /\ FsRead(fs, TOKEN_FILE) = BlankList
    /\ last.op = "register" /\ last.code = 400 /\ last.req.body = "token"
    /\ Strip(PyStr(last.req.val)) = <<>>
    /\ registered_tokens = {TokA}

\* C15: a successful register response has is_new = TRUE exactly when the
\* call added the token, and is_new = FALSE exactly when the store held it
\* before the call.
C15_IsNewReported ==
    (last.op = "register" /\ last.code = 200) => (last.body.is_new = (last.save # "none"))

\* C16: when the token file exists as save_tokens starts and the save
\* stops at one of its steps, load_tokens afterwards returns the set the
\* file gave before the save or the new in-memory set.
C16_CrashSafeSave ==
    [][(last'.op = "register" /\ last'.n = last.n + 1
            /\ last'.save \in SaveFailures \ {"none"} /\ FsExists(fs, TOKEN_FILE))
        => load_tokens(fs', TRUE) \in {load_tokens(fs, TRUE), registered_tokens'}]_vars

\* C17: a token whose registration was answered 200, its save having run
\* without error, is still in the in-memory set after a force_reload that
\* follows and reads the file without error.
C17_AcceptedStays ==
    [][(last.op = "register" /\ last.code = 200 /\ last.save = "ok"
            /\ last'.op = "force_reload" /\ last'.n = last.n + 1 /\ last'.ioOk)
        => RegisterToken(last.req) \in registered_tokens']_vars

\* C18: every token of the in-memory set holds ':'.
C18_TokensWellFormed ==
    \A t \in registered_tokens : Contains(t, ":")

----------------------------------------------------------------------------
(* Further claims about send_fcm_notification_with_retry (SpecRetry) *)

\* C20: every attempt makes its own credential exchange, so the exchanges
\* made equal the attempts counted; a failed credential exchange never leaves
\* the call by an exception: like a failed send it is followed by a sleep of
\* 2^attempt seconds when attempts remain, and by the return of
\* (False, max_retries + 1) when none does.
C20_CredentialFailureRetried ==
    rt.pc # "idle" =>
        /\ rt.pc \in {"loop", "returned"}
        /\ rt.exchanges = rt.attempt /\ rt.exchanges = Len(rt.log)
        /\ \A i \in 1..Len(rt.log) :
               rt.log[i] = "credential_error" =>
                   IF i <= rt.max_retries
                   THEN Len(rt.sleeps) >= i /\ rt.sleeps[i] = 2 ^ i
                   ELSE /\ rt.pc = "returned" /\ ~rt.success
                        /\ rt.attempt = rt.max_retries + 1
                        /\ Len(rt.sleeps) = rt.max_retries
        /\ (rt.pc = "returned" /\ ~rt.success) => rt.exchanges = rt.max_retries + 1

\* C20 witness: with max_retries = 3, four credential exchanges failed and
\* the call returned (False, 4) after sleeps of 2, 4 and 8.
C20_Witness ==
    /\ rt.pc = "returned" /\ ~rt.success /\ rt.max_retries = 3
    /\ rt.log = <<"credential_error", "credential_error", "credential_error",
                  "credential_error">>
    /\ rt.exchanges = 4 /\ rt.sleeps = <<2, 4, 8>>

====
